---- MODULE Spec2Model ----
(***************************************************************************)
(* A model of scripts/document-cleanup.py (DocumentCleanup: find_files,    *)
(* create_backup, clean_file, clean_all) and of the file discovery of      *)
(* scripts/markdown-manager.py (MarkdownManager.find_markdown_files) and   *)
(* of the checks of MarkdownManager.validate_file.                         *)
(*                                                                         *)
(* Text is a sequence of one-character tokens.  The characters that the    *)
(* code distinguishes are the space, the tab, "\n" (LF), "\r" (CR); every  *)
(* other character behaves like the letter "a" (and "b").                  *)
(* A path is the sequence of its components.                               *)
(***************************************************************************)
EXTENDS Integers, Sequences, FiniteSets, TLC

SP == "SP"
TAB == "TAB"
LF == "LF"
CR == "CR"

\* The characters of the contents the pure-transform specification draws from.
Chars == {"a", SP, LF, CR}

\* Bound: longest file content SpecClean enumerates.
MaxLen == 5

\* Bound: the last second the clock reaches.
MaxTime == 1

\* Bound: how many times clean_all is run in SpecClean.
MaxRuns == 2

Max(S) == CHOOSE x \in S : \A y \in S : y <= x
Min(S) == CHOOSE x \in S : \A y \in S : x <= y

(***************************************************************************)
(* str helpers used by clean_file                                          *)
(***************************************************************************)

\* str.rstrip(chars): drop the longest suffix made of characters of chars.
rstrip(s, chars) ==
    LET keep == {i \in 1..Len(s) : s[i] \notin chars}
    IN  IF keep = {} THEN <<>> ELSE SubSeq(s, 1, Max(keep))

\* str.rstrip() without argument strips every whitespace character.
Whitespace == {SP, TAB, LF, CR}

endswith(s, suffix) ==
    /\ Len(s) >= Len(suffix)
    /\ SubSeq(s, Len(s) - Len(suffix) + 1, Len(s)) = suffix

RECURSIVE join(_)
join(lines) == IF lines = <<>> THEN <<>> ELSE Head(lines) \o join(Tail(lines))

\* open(file_path, 'r', encoding='utf-8'): text mode with newline=None, so
\* "\r\n" and a bare "\r" are both handed to the program as "\n".
RECURSIVE TranslateNewlines(_)
TranslateNewlines(raw) ==
    IF raw = <<>> THEN <<>>
    ELSE IF raw[1] = CR
         THEN <<LF>> \o TranslateNewlines(
                  IF Len(raw) > 1 /\ raw[2] = LF
                  THEN SubSeq(raw, 3, Len(raw)) ELSE Tail(raw))
         ELSE <<raw[1]>> \o TranslateNewlines(Tail(raw))

\* f.readlines(): the text cut after every "\n", terminators kept.
RECURSIVE readlines(_)
readlines(text) ==
    IF text = <<>> THEN <<>>
    ELSE LET nl == {i \in 1..Len(text) : text[i] = LF}
         IN  IF nl = {} THEN <<text>>
             ELSE <<SubSeq(text, 1, Min(nl))>>
                  \o readlines(SubSeq(text, Min(nl) + 1, Len(text)))

\* os.linesep of the platform (POSIX); f.write in text mode writes it for "\n".
linesep == <<LF>>

RECURSIVE WriteText(_)
WriteText(content) ==
    IF content = <<>> THEN <<>>
    ELSE (IF content[1] = LF THEN linesep ELSE <<content[1]>>)
         \o WriteText(Tail(content))

(***************************************************************************)
(* The transform of clean_file                                             *)
(***************************************************************************)

\* One iteration of the per-line loop: rstrip(' \t'), then the terminator.
CleanLine(line, line_num, n) ==
    LET cleaned_line == rstrip(line, {SP, TAB})
    IN  IF endswith(cleaned_line, <<CR, LF>>)
        THEN SubSeq(cleaned_line, 1, Len(cleaned_line) - 2) \o <<LF>>
        ELSE IF endswith(cleaned_line, <<CR>>)
        THEN SubSeq(cleaned_line, 1, Len(cleaned_line) - 1) \o <<LF>>
        ELSE IF ~endswith(cleaned_line, <<LF>>) /\ line_num < n
        THEN cleaned_line \o <<LF>>
        ELSE cleaned_line

cleaned_lines(lines) ==
    [i \in 1..Len(lines) |-> CleanLine(lines[i], i, Len(lines))]

\* Length of the run of "\n" that starts at the head of s.
RECURSIVE NewlineRun(_)
NewlineRun(s) ==
    IF s = <<>> \/ s[1] # LF THEN 0 ELSE 1 + NewlineRun(Tail(s))

\* re.sub(r'\n{3,}', '\n\n', content)
RECURSIVE CollapseNewlines(_)
CollapseNewlines(s) ==
    IF s = <<>> THEN <<>>
    ELSE IF s[1] # LF THEN <<s[1]>> \o CollapseNewlines(Tail(s))
    ELSE LET r == NewlineRun(s)
         IN  (IF r >= 3 THEN <<LF, LF>> ELSE SubSeq(s, 1, r))
             \o CollapseNewlines(SubSeq(s, r + 1, Len(s)))

\* The characters of s at the positions K, in order.
RECURSIVE KeepFrom(_, _, _)
KeepFrom(s, K, i) ==
    IF i > Len(s) THEN <<>>
    ELSE (IF i \in K THEN <<s[i]>> ELSE <<>>) \o KeepFrom(s, K, i + 1)

\* re.sub(r'^[ \t]+$', '', content, flags=re.MULTILINE): a run of spaces and
\* tabs is removed when it starts at the string's start or right after a
\* "\n" and ends at the string's end or right before a "\n".
BlankWhitespaceLines(s) ==
    LET lineStart(i) == Max({0} \cup {j \in 1..(i - 1) : s[j] = LF}) + 1
        lineEnd(i) == Min({Len(s) + 1} \cup {j \in (i + 1)..Len(s) : s[j] = LF}) - 1
        blank(i) == /\ s[i] \in {SP, TAB}
                    /\ \A j \in lineStart(i)..lineEnd(i) : s[j] \in {SP, TAB}
    IN  KeepFrom(s, {i \in 1..Len(s) : ~blank(i)}, 1)

\* Lines 132-163: from the text read to the content clean_file compares.
Transform(original_content) ==
    LET lines == readlines(original_content)
        joined == join(cleaned_lines(lines))
        collapsed == CollapseNewlines(joined)
        blanked == BlankWhitespaceLines(collapsed)
    IN  rstrip(blanked, Whitespace) \o <<LF>>

(***************************************************************************)
(* The file system, the clock and the state of one clean_all run           *)
(***************************************************************************)

VARIABLES
    kind,               \* path -> "file" | "dir" | "missing"
    disk,               \* path -> the bytes of the file (raw, untranslated)
    cwd_writable,       \* whether a directory can be created in the cwd
    backup_dir_exists,  \* whether .document-backups exists
    backups,            \* backup path <<name, timestamp>> -> bytes
    now,                \* the clock, in whole seconds
    files,              \* the list handed to clean_all
    create_backup,      \* clean_all's flags
    dry_run,
    auto_cleanup,
    pc,                 \* "start" | "loop" | "done" | "raised"
    success_count,
    calls,              \* what each clean_file call of this run did, in order
    ret,                \* clean_all's return value: "none" | "True" | "False"
    run,                \* how many times clean_all has been started
    tree,               \* the file paths below the working directory
    finder,             \* "cleanup" (find_files) | "markdown" (find_markdown_files)
    include_patterns,   \* find_files' argument, {} for None
    include_temp,
    todo,               \* the directories os.walk has still to yield
    visited,            \* the directories os.walk has yielded
    found,              \* the list 'files' of the walk, in append order
    md_content,         \* validate_file: the text read
    errors,             \* validate_file: its counters
    warnings,
    prev_level,         \* validate_file: the heading loop's state
    md_line_num,
    log                 \* validate_file: the findings logged, in order

vars == <<kind, disk, cwd_writable, backup_dir_exists, backups, now, files,
          create_backup, dry_run, auto_cleanup, pc, success_count, calls, ret, run,
          tree, finder, include_patterns, include_temp, todo, visited, found,
          md_content, errors, warnings, prev_level, md_line_num, log>>

validateVars == <<md_content, errors, warnings, prev_level, md_line_num, log>>
findVars == <<tree, finder, include_patterns, include_temp, todo, visited, found>>
cleanVars == <<kind, disk, cwd_writable, backup_dir_exists, backups, now,
               create_backup, dry_run, auto_cleanup, success_count, calls, ret, run>>

EmptyMap == [x \in {} |-> <<>>]
Put(f, k, v) == [x \in (DOMAIN f) \cup {k} |-> IF x = k THEN v ELSE f[x]]
Remove(f, k) == [x \in (DOMAIN f) \ {k} |-> f[x]]

\* backup_path is None
None == <<>>

\* Path.name: the last component.
name(file_path) == file_path[Len(file_path)]

\* Line 96: backup_dir / f"{file_path.name}.{timestamp}.backup"
BackupPath(file_path, timestamp) == <<name(file_path), timestamp>>

\* Path.mkdir(exist_ok=True) on the backup directory succeeds when it is there
\* already or the working directory lets it be created.
MkdirOk == backup_dir_exists \/ cwd_writable

\* What the operating system does to the I/O of one clean_file call.
IOOutcomes ==
    [backup : {"ok", "fail"}, read : {"ok", "fail"},
     write : {"ok", "denied", "partial"}, restore : {"ok", "fail"}]

NoFault == [backup |-> "ok", read |-> "ok", write |-> "ok", restore |-> "ok"]

\* unlink with the deletion left out.
unlink_kept(bk, backup_path) == bk

\* Line 175: backup_path.unlink()
unlink(bk, backup_path) == Remove(bk, backup_path)

\* The restore with the copy left out: the file stays as the failure left it.
restore_skipped(bk, backup_path, current) == current

\* Line 183: shutil.copy2(backup_path, file_path), the new bytes of the file.
restore(bk, backup_path, current) == bk[backup_path]

\* Lines 179-185: the except branch.  d and bk are the file system when the
\* exception is caught.
Handler(file_path, io, d, bk, bdir, backup_path, call) ==
    IF backup_path # None /\ backup_path \in DOMAIN bk
    THEN IF io.restore = "ok"
         THEN [disk |-> [d EXCEPT ![file_path] = restore(bk, backup_path, d[file_path])],
               backups |-> bk, backup_dir_exists |-> bdir,
               call |-> [call EXCEPT !.ret = "False", !.restore = "ok"]]
         ELSE [disk |-> d, backups |-> bk, backup_dir_exists |-> bdir,
               call |-> [call EXCEPT !.ret = "raised", !.restore = "failed"]]
    ELSE [disk |-> d, backups |-> bk, backup_dir_exists |-> bdir,
          call |-> [call EXCEPT !.ret = "False"]]

\* Lines 127-177: the try block, entered with the backup made (or not).
TryBlock(file_path, io, bk, bdir, backup_path, call) ==
    IF io.read = "fail"
    THEN Handler(file_path, io, disk, bk, bdir, backup_path,
                 [call EXCEPT !.exc = "read"])
    ELSE
    LET original_content == TranslateNewlines(disk[file_path])
        content == Transform(original_content)
        c1 == [call EXCEPT !.computed = TRUE, !.original_content = original_content,
                           !.content = content]
        new == WriteText(content)
    IN  IF content # original_content
        THEN CASE io.write = "ok" ->
                    [disk |-> [disk EXCEPT ![file_path] = new],
                     backups |-> bk, backup_dir_exists |-> bdir,
                     call |-> [c1 EXCEPT !.wrote = TRUE, !.ret = "True"]]
               [] io.write = "denied" ->
                    Handler(file_path, io, disk, bk, bdir, backup_path,
                            [c1 EXCEPT !.exc = "write"])
               [] io.write = "partial" ->
                    Handler(file_path, io,
                            [disk EXCEPT ![file_path] = SubSeq(new, 1, Len(new) - 1)],
                            bk, bdir, backup_path,
                            [c1 EXCEPT !.exc = "write", !.partial = TRUE])
        ELSE [disk |-> disk,
              backups |-> IF backup_path # None THEN unlink(bk, backup_path) ELSE bk,
              backup_dir_exists |-> bdir,
              call |-> [c1 EXCEPT !.ret = "True"]]

\* Lines 106-185.  The result is the file system after the call and the record
\* of what the call did; ret = "raised" when an exception leaves clean_file.
clean_file(file_path, io) ==
    LET call == [file |-> file_path, ret |-> "False", backup_path |-> None,
                 exc |-> "none", restore |-> "none", before |-> disk[file_path],
                 computed |-> FALSE, original_content |-> <<>>, content |-> <<>>,
                 wrote |-> FALSE, partial |-> FALSE]
        same == [disk |-> disk, backups |-> backups,
                 backup_dir_exists |-> backup_dir_exists, call |-> call]
    IN  IF kind[file_path] = "missing" THEN same
        ELSE IF kind[file_path] # "file" THEN same
        ELSE IF dry_run THEN [same EXCEPT !.call.ret = "True"]
        ELSE IF ~create_backup
        THEN TryBlock(file_path, io, backups, backup_dir_exists, None, call)
        ELSE IF ~MkdirOk
        THEN [same EXCEPT !.call.ret = "raised", !.call.exc = "mkdir"]
        ELSE IF io.backup = "ok"
        THEN LET backup_path == BackupPath(file_path, now)
             IN  TryBlock(file_path, io, Put(backups, backup_path, disk[file_path]),
                          TRUE, backup_path,
                          [call EXCEPT !.backup_path = backup_path])
        ELSE TryBlock(file_path, io, backups, TRUE, None, call)

(***************************************************************************)
(* clean_all                                                               *)
(***************************************************************************)

\* Line 191 without its dry-run test.
NeedsBackupDir_always == create_backup

\* Line 191: the condition under which clean_all creates the backup directory.
NeedsBackupDir == create_backup /\ ~dry_run

\* Lines 189-194.
CleanAllStart ==
    /\ pc = "start"
    /\ IF NeedsBackupDir
       THEN IF MkdirOk
            THEN backup_dir_exists' = TRUE /\ pc' = "loop"
            ELSE backup_dir_exists' = backup_dir_exists /\ pc' = "raised"
       ELSE backup_dir_exists' = backup_dir_exists /\ pc' = "loop"
    /\ success_count' = 0
    /\ calls' = <<>>
    /\ ret' = "none"
    /\ run' = run + 1
    /\ UNCHANGED validateVars
    /\ UNCHANGED findVars
    /\ UNCHANGED <<kind, disk, cwd_writable, backups, now, files,
                   create_backup, dry_run, auto_cleanup>>

\* Lines 195-198: one iteration of the loop, the clean_file call included.
CleanFile(IO) ==
    /\ pc = "loop"
    /\ Len(calls) < Len(files)
    /\ \E io \in IO :
          LET r == clean_file(files[Len(calls) + 1], io)
          IN  /\ disk' = r.disk
              /\ backups' = r.backups
              /\ backup_dir_exists' = r.backup_dir_exists
              /\ calls' = Append(calls, r.call)
              /\ success_count' = IF r.call.ret = "True"
                                  THEN success_count + 1 ELSE success_count
              /\ pc' = IF r.call.ret = "raised" THEN "raised" ELSE "loop"
    /\ UNCHANGED validateVars
    /\ UNCHANGED findVars
    /\ UNCHANGED <<kind, cwd_writable, now, files, create_backup, dry_run,
                   auto_cleanup, ret, run>>

\* Lines 200-212.
CleanAllFinish ==
    /\ pc = "loop"
    /\ Len(calls) = Len(files)
    /\ IF ~dry_run /\ auto_cleanup /\ backup_dir_exists
       THEN backup_dir_exists' = FALSE /\ backups' = EmptyMap
       ELSE UNCHANGED <<backup_dir_exists, backups>>
    /\ ret' = IF success_count = Len(files) THEN "True" ELSE "False"
    /\ pc' = "done"
    /\ UNCHANGED validateVars
    /\ UNCHANGED findVars
    /\ UNCHANGED <<kind, disk, cwd_writable, now, files, create_backup, dry_run,
                   auto_cleanup, success_count, calls, run>>

\* A second passes between two clean_file calls.
Tick ==
    /\ pc = "loop"
    /\ now < MaxTime
    /\ now' = now + 1
    /\ UNCHANGED validateVars
    /\ UNCHANGED findVars
    /\ UNCHANGED <<kind, disk, cwd_writable, backup_dir_exists, backups, files,
                   create_backup, dry_run, auto_cleanup, pc, success_count,
                   calls, ret, run>>

\* The tool is run again on the same tree.
Rerun ==
    /\ pc = "done"
    /\ run < MaxRuns
    /\ pc' = "start"
    /\ UNCHANGED validateVars
    /\ UNCHANGED findVars
    /\ UNCHANGED <<kind, disk, cwd_writable, backup_dir_exists, backups, now,
                   files, create_backup, dry_run, auto_cleanup, success_count,
                   calls, ret, run>>

(***************************************************************************)
(* File discovery: find_files and find_markdown_files                      *)
(*                                                                         *)
(* A name is a sequence of tokens, ".git" is <<".", "git">> and "x.md" is  *)
(* <<"x", ".", "md">>; a glob is a name in which "*" may occur; a pattern  *)
(* is the sequence of the globs between its "/".  No token is the start of *)
(* another one, so the order of names is the order of their strings.       *)
(***************************************************************************)

\* DocumentCleanup.exclude_patterns: node_modules/*, .git/*,
\* .document-backups/*, .*
cleanup_exclude_patterns ==
    { << <<"node_modules">>, <<"*">> >>,
      << <<".", "git">>, <<"*">> >>,
      << <<".", "document-backups">>, <<"*">> >>,
      << <<".", "*">> >> }

\* MarkdownManager.exclude_patterns: docs/zArchive/*, node_modules/*, .git/*, .*
markdown_exclude_patterns ==
    { << <<"docs">>, <<"zArchive">>, <<"*">> >>,
      << <<"node_modules">>, <<"*">> >>,
      << <<".", "git">>, <<"*">> >>,
      << <<".", "*">> >> }

exclude_patterns ==
    IF finder = "cleanup" THEN cleanup_exclude_patterns ELSE markdown_exclude_patterns

\* *.tmp* *.temp* *.backup* *.bak* *.orig* *~ .#* #*# *.swp* *.swo*
temp_patterns ==
    { << <<"*", ".", "tmp", "*">> >>, << <<"*", ".", "temp", "*">> >>,
      << <<"*", ".", "backup", "*">> >>, << <<"*", ".", "bak", "*">> >>,
      << <<"*", ".", "orig", "*">> >>, << <<"*", "~">> >>,
      << <<".", "#", "*">> >>, << <<"#", "*", "#">> >>,
      << <<"*", ".", "swp", "*">> >>, << <<"*", ".", "swo", "*">> >> }

\* Line 82: the extensions of the default selection.
DefaultSuffixes ==
    { <<".", e>> : e \in {"md", "txt", "py", "sh", "js", "ts", "json", "yaml",
                          "yml", "xml", "html", "css"} }

\* str.lower() on the tokens of the model.
Lower(tok) == IF tok = "MD" THEN "md" ELSE tok

\* The code of a token's first character: the order of str.
Ord(tok) ==
    CASE tok = "." -> 46 [] tok = "MD" -> 77 [] tok = "docs" -> 100
      [] tok = "git" -> 103 [] tok = "js" -> 106 [] tok = "md" -> 109
      [] tok = "node_modules" -> 110 [] tok = "pkg" -> 112 [] tok = "sub" -> 115
      [] tok = "tmp" -> 116 [] tok = "x" -> 120 [] tok = "zArchive" -> 122

\* fnmatch.fnmatchcase(name, glob)
RECURSIVE fnmatchcase(_, _)
fnmatchcase(nm, glob) ==
    IF glob = <<>> THEN nm = <<>>
    ELSE IF glob[1] = "*"
    THEN \E k \in 0..Len(nm) : fnmatchcase(SubSeq(nm, k + 1, Len(nm)), Tail(glob))
    ELSE nm # <<>> /\ nm[1] = glob[1] /\ fnmatchcase(Tail(nm), Tail(glob))

\* PurePath.match(pattern) for a relative pattern: matched from the right.
match(path, pattern) ==
    /\ Len(pattern) <= Len(path)
    /\ \A i \in 1..Len(pattern) :
          fnmatchcase(path[Len(path) - Len(pattern) + i], pattern[i])

\* pattern.rstrip("/*"): trailing "*" and "/" dropped, in any number.
RECURSIVE rstrip_slash_star(_)
rstrip_slash_star(pattern) ==
    IF pattern = <<>> THEN <<>>
    ELSE LET front == SubSeq(pattern, 1, Len(pattern) - 1)
             last == pattern[Len(pattern)]
         IN  IF last = <<>> THEN rstrip_slash_star(front)
             ELSE IF last[Len(last)] = "*"
             THEN rstrip_slash_star(Append(front, SubSeq(last, 1, Len(last) - 1)))
             ELSE pattern

\* Path(str): empty and "." components do not count.
Path(parts) == SelectSeq(parts, LAMBDA c : c # <<>> /\ c # <<".">>)

\* PurePath.suffix: from the last "." of the name, unless the name starts
\* with it or ends with it.
suffix(file_path) ==
    LET nm == name(file_path)
        dots == {i \in 1..Len(nm) : nm[i] = "."}
    IN  IF dots # {} /\ 1 < Max(dots) /\ Max(dots) < Len(nm)
        THEN SubSeq(nm, Max(dots), Len(nm)) ELSE <<>>

\* Lines 65-67: whether the walk keeps the directory d of root.
KeepDir(root, d) ==
    ~ \E pattern \in exclude_patterns :
          Append(root, d) = Path(rstrip_slash_star(pattern))

\* Line 73 (line 66 of markdown-manager.py).
Excluded(file_path) == \E pattern \in exclude_patterns : match(file_path, pattern)

\* Lines 69-88 for one file: what is appended to 'files'.
Selected(file_path) ==
    IF finder = "cleanup"
    THEN IF Excluded(file_path) THEN <<>>
         ELSE (IF include_patterns # {}
               THEN IF \E pattern \in include_patterns : match(file_path, pattern)
                    THEN <<file_path>> ELSE <<>>
               ELSE IF [i \in 1..Len(suffix(file_path)) |-> Lower(suffix(file_path)[i])]
                          \in DefaultSuffixes
                    THEN <<file_path>> ELSE <<>>)
              \o (IF include_temp /\ \E pattern \in temp_patterns : match(file_path, pattern)
                  THEN <<file_path>> ELSE <<>>)
    ELSE IF endswith(name(file_path), <<".", "md">>) /\ ~Excluded(file_path)
         THEN <<file_path>> ELSE <<>>

\* The order of names and of paths (str and PurePath comparison).
RECURSIVE NameLess(_, _)
NameLess(a, b) ==
    IF b = <<>> THEN FALSE
    ELSE IF a = <<>> THEN TRUE
    ELSE IF a[1] = b[1] THEN NameLess(Tail(a), Tail(b))
    ELSE Ord(a[1]) < Ord(b[1])

RECURSIVE PathLess(_, _)
PathLess(p, q) ==
    IF q = <<>> THEN FALSE
    ELSE IF p = <<>> THEN TRUE
    ELSE IF p[1] = q[1] THEN PathLess(Tail(p), Tail(q))
    ELSE NameLess(p[1], q[1])

RECURSIVE Insert(_, _)
Insert(x, s) ==
    IF s = <<>> THEN <<x>>
    ELSE IF PathLess(x, s[1]) THEN <<x>> \o s
    ELSE <<s[1]>> \o Insert(x, Tail(s))

\* sorted(files)
RECURSIVE sorted(_)
sorted(s) == IF s = <<>> THEN <<>> ELSE Insert(s[1], sorted(Tail(s)))

RECURSIVE SetToSeq(_)
SetToSeq(S) ==
    IF S = {} THEN <<>>
    ELSE LET x == CHOOSE y \in S : TRUE IN <<x>> \o SetToSeq(S \ {x})

\* What os.walk lists in the directory root: its subdirectories and its files.
IsUnder(p, root) == Len(p) > Len(root) /\ SubSeq(p, 1, Len(root)) = root
dirs(root) == {p[Len(root) + 1] : p \in {q \in tree : IsUnder(q, root) /\ Len(q) > Len(root) + 1}}
filenames(root) == {p[Len(root) + 1] : p \in {q \in tree : Len(q) = Len(root) + 1 /\ IsUnder(q, root)}}

RECURSIVE SelectAll(_)
SelectAll(paths) ==
    IF paths = <<>> THEN <<>> ELSE Selected(paths[1]) \o SelectAll(Tail(paths))

\* One iteration of the for loop over os.walk("."): lines 63-88 of
\* document-cleanup.py, lines 56-67 of markdown-manager.py.
Walk ==
    /\ pc = "walk"
    /\ todo # <<>>
    /\ LET root == Head(todo)
           kept == {Append(root, d) : d \in {e \in dirs(root) : KeepDir(root, e)}}
           here == {Append(root, f) : f \in filenames(root)}
       IN  /\ todo' = sorted(SetToSeq(kept)) \o Tail(todo)
           /\ visited' = visited \cup {root}
           /\ found' = found \o SelectAll(sorted(SetToSeq(here)))
    /\ UNCHANGED <<tree, finder, include_patterns, include_temp, files, pc>>
    /\ UNCHANGED validateVars
    /\ UNCHANGED cleanVars

\* Line 90 (line 69): return sorted(files).
FindReturn ==
    /\ pc = "walk"
    /\ todo = <<>>
    /\ files' = sorted(found)
    /\ pc' = "found"
    /\ UNCHANGED findVars
    /\ UNCHANGED validateVars
    /\ UNCHANGED cleanVars

(***************************************************************************)
(* Spec: one clean_all run over three files, two of them with the same     *)
(* name, under every outcome of the I/O.                                    *)
(***************************************************************************)

\* a/x.md, b/x.md, y.md: sorted, as find_files returns them.
Files ==
    << << <<"a">>, <<"x", ".", "md">> >>,
       << <<"b">>, <<"x", ".", "md">> >>,
       << <<"y", ".", "md">> >> >>

Range(s) == {s[i] : i \in 1..Len(s)}

\* What each path may be before the run.  <<>> stands for "no bytes": the
\* path is missing or a directory.  The contents: clean already; blanks at the
\* end of the last line; two lines to clean; CRLF terminators only.
Candidates(p) ==
    CASE p = Files[1] -> { <<"a", SP>>, <<"a", LF>>, <<>> }
      [] p = Files[2] -> { <<"b", LF, "b", SP>>, <<"a", LF>>, <<>> }
      [] p = Files[3] -> { <<"a", CR, LF>>, <<"a", SP>> }

\* The backup directory before the run: absent, empty, or with a backup of an
\* earlier run.
OldBackups == { EmptyMap, [p \in {<< <<"x", ".", "md">>, -1 >>} |-> <<"a", LF>>] }

Init ==
    /\ files = Files
    /\ kind \in [Range(Files) -> {"file", "dir", "missing"}]
    /\ disk \in [Range(Files) -> UNION {Candidates(p) : p \in Range(Files)}]
    /\ \A p \in Range(Files) :
          /\ disk[p] \in Candidates(p)
          /\ kind[p] # "file" <=> disk[p] = <<>>
          /\ kind[p] = "missing" => p = Files[1]
          /\ kind[p] = "dir" => p = Files[2]
    /\ cwd_writable \in BOOLEAN
    /\ backup_dir_exists \in BOOLEAN
    /\ backups \in OldBackups
    /\ backups # EmptyMap => backup_dir_exists
    /\ now = 0
    /\ create_backup \in BOOLEAN
    /\ dry_run \in BOOLEAN
    /\ auto_cleanup \in BOOLEAN
    /\ pc = "start"
    /\ success_count = 0
    /\ calls = <<>>
    /\ ret = "none"
    /\ run = 0
    /\ md_content = <<>>
    /\ errors = 0
    /\ warnings = 0
    /\ prev_level = 0
    /\ md_line_num = 0
    /\ log = <<>>
    /\ tree = {}
    /\ finder = "cleanup"
    /\ include_patterns = {}
    /\ include_temp = FALSE
    /\ todo = <<>>
    /\ visited = {}
    /\ found = <<>>

Next ==
    \/ CleanAllStart
    \/ CleanFile(IOOutcomes)
    \/ CleanAllFinish
    \/ Tick

Spec == Init /\ [][Next]_vars

(***************************************************************************)
(* SpecClean: every content up to MaxLen characters in one file, cleaned   *)
(* and cleaned again, with no I/O failure.                                 *)
(***************************************************************************)

RECURSIVE Strings(_)
Strings(n) ==
    IF n = 0 THEN {<<>>}
    ELSE LET shorter == Strings(n - 1)
         IN  shorter \cup {Append(s, c) : s \in {t \in shorter : Len(t) = n - 1}, c \in Chars}

OneFile == << << <<"y", ".", "md">> >> >>

InitClean ==
    /\ files = OneFile
    /\ kind = [p \in Range(OneFile) |-> "file"]
    /\ disk \in [Range(OneFile) -> Strings(MaxLen)]
    /\ cwd_writable = TRUE
    /\ backup_dir_exists = FALSE
    /\ backups = EmptyMap
    /\ now = 0
    /\ create_backup \in BOOLEAN
    /\ dry_run = FALSE
    /\ auto_cleanup = FALSE
    /\ pc = "start"
    /\ success_count = 0
    /\ calls = <<>>
    /\ ret = "none"
    /\ run = 0
    /\ md_content = <<>>
    /\ errors = 0
    /\ warnings = 0
    /\ prev_level = 0
    /\ md_line_num = 0
    /\ log = <<>>
    /\ tree = {}
    /\ finder = "cleanup"
    /\ include_patterns = {}
    /\ include_temp = FALSE
    /\ todo = <<>>
    /\ visited = {}
    /\ found = <<>>

NextClean ==
    \/ CleanAllStart
    \/ CleanFile({NoFault})
    \/ CleanAllFinish
    \/ Rerun

SpecClean == InitClean /\ [][NextClean]_vars

(***************************************************************************)
(* SpecFind: the walk over every tree made of the candidate paths.         *)
(***************************************************************************)

CandidatePaths ==
    { << <<"x", ".", "md">> >>,
      << <<"x", ".", "tmp">> >>,
      << <<"node_modules">>, <<"x", ".", "js">> >>,
      << <<"node_modules">>, <<"pkg">>, <<"x", ".", "md">> >>,
      << <<".", "git">>, <<"x", ".", "md">> >>,
      << <<"sub">>, <<"x", ".", "MD">> >>,
      << <<"sub">>, <<".", "x", ".", "md">> >>,
      << <<"sub">>, <<"node_modules">>, <<"x", ".", "js">> >>,
      << <<"sub">>, <<"node_modules">>, <<"pkg">>, <<"x", ".", "md">> >>,
      << <<"docs">>, <<"zArchive">>, <<"x", ".", "md">> >> }

IncludeChoices == { {}, { << <<"*", ".", "md">> >> }, { << <<"*">> >> } }

InitFind ==
    /\ tree \in SUBSET CandidatePaths
    /\ finder \in {"cleanup", "markdown"}
    /\ include_patterns \in IncludeChoices
    /\ include_temp \in BOOLEAN
    /\ finder = "markdown" => include_patterns = {} /\ ~include_temp
    /\ todo = << <<>> >>
    /\ visited = {}
    /\ found = <<>>
    /\ files = <<>>
    /\ pc = "walk"
    /\ kind = EmptyMap
    /\ disk = EmptyMap
    /\ cwd_writable = TRUE
    /\ backup_dir_exists = FALSE
    /\ backups = EmptyMap
    /\ now = 0
    /\ create_backup = TRUE
    /\ dry_run = FALSE
    /\ auto_cleanup = FALSE
    /\ success_count = 0
    /\ calls = <<>>
    /\ ret = "none"
    /\ run = 0
    /\ md_content = <<>>
    /\ errors = 0
    /\ warnings = 0
    /\ prev_level = 0
    /\ md_line_num = 0
    /\ log = <<>>

NextFind ==
    \/ Walk
    \/ FindReturn

SpecFind == InitFind /\ [][NextFind]_vars

(***************************************************************************)
(* MarkdownManager.validate_file                                           *)
(*                                                                         *)
(* One call on one path, a step for each check of the function in the      *)
(* order of the code; the heading loop takes one step for each line.       *)
(* A finding is the record of one self.log call of level error or warning. *)
(***************************************************************************)

\* Bound: the most lines, joined by "\n", a validated file is made of.
MaxLines == 4

\* str.split('\n'): the pieces between the "\n", the empty ones included.
RECURSIVE split(_)
split(s) ==
    LET nl == {i \in 1..Len(s) : s[i] = LF}
    IN  IF nl = {} THEN <<s>>
        ELSE <<SubSeq(s, 1, Min(nl) - 1)>> \o split(SubSeq(s, Min(nl) + 1, Len(s)))

\* str.strip() without argument.
strip(s) ==
    LET keep == {i \in 1..Len(s) : s[i] \notin Whitespace}
    IN  IF keep = {} THEN <<>> ELSE SubSeq(s, Min(keep), Max(keep))

startswith(s, prefix) ==
    /\ Len(s) >= Len(prefix)
    /\ SubSeq(s, 1, Len(prefix)) = prefix

\* re.search(r'[ \t]+$', content, re.MULTILINE): a space or a tab that
\* stands at the end of the text or before a "\n".
TrailingWhitespace(content) ==
    \E i \in 1..Len(content) :
        /\ content[i] \in {SP, TAB}
        /\ (i = Len(content) \/ content[i + 1] = LF)

\* re.search(r'\n\s*\n\s*\n\s*\n', content): a stretch of whitespace that
\* starts with a "\n", ends with a "\n" and holds four "\n" or more.
MultipleBlankLines(content) ==
    \E i \in 1..Len(content) : \E j \in (i + 1)..Len(content) :
        /\ content[i] = LF
        /\ content[j] = LF
        /\ \A k \in i..j : content[k] \in Whitespace
        /\ Cardinality({k \in i..j : content[k] = LF}) >= 4

\* The length of group 1 of re.match(r'^(#+)\s+', line), 0 when the line
\* does not match: the "#" the line starts with, when whitespace follows.
hashes(line) ==
    LET other == {i \in 1..Len(line) : line[i] # "#"}
    IN  IF other = {} THEN Len(line) ELSE Min(other) - 1

heading_match(line) ==
    /\ hashes(line) >= 1
    /\ hashes(line) < Len(line)
    /\ line[hashes(line) + 1] \in Whitespace

current_level(line) == hashes(line)

\* prev_level after a heading line that was flagged as a skip or not.
prev_level_unless_skipped(prev, current) ==
    IF current > prev + 1 THEN prev ELSE current

\* prev_level = current_level, for every heading line.
next_prev_level(prev, current) == current

\* The backquote of a code fence.
BQ == "BQ"

\* len(re.findall(fence, content, re.MULTILINE)), the fence being three
\* backquotes at the start of a line.
code_blocks(content) ==
    LET lines == split(content)
    IN  Cardinality({i \in 1..Len(lines) : startswith(lines[i], <<BQ, BQ, BQ>>)})

Finding(level, message, n, line) ==
    [level |-> level, message |-> message, line_num |-> n, line |-> line]

\* self.log(message, level) for a finding, and the counter that goes with it.
Error(message, n, line) ==
    /\ log' = Append(log, Finding("error", message, n, line))
    /\ errors' = errors + 1
    /\ UNCHANGED warnings

Warning(message) ==
    /\ log' = Append(log, Finding("warning", message, 0, <<>>))
    /\ warnings' = warnings + 1
    /\ UNCHANGED errors

NoFinding == UNCHANGED <<log, errors, warnings>>

fsVars == <<kind, disk, cwd_writable, backup_dir_exists, backups, now, files,
            create_backup, dry_run, auto_cleanup, success_count, calls, run>>

\* return 1, 0 of the three early exits.
ReturnError(message) ==
    /\ log' = Append(log, Finding("error", message, 0, <<>>))
    /\ errors' = 1
    /\ warnings' = 0
    /\ ret' = <<1, 0>>
    /\ pc' = "returned"
    /\ UNCHANGED <<md_content, prev_level, md_line_num>>

\* errors = 0, warnings = 0; exists(), is_file(), read_text().
ValidateOpen ==
    /\ pc = "validate"
    /\ LET file_path == files[1]
       IN  \E read_ok \in BOOLEAN :
               IF kind[file_path] = "missing"
               THEN ReturnError("File not found")
               ELSE IF kind[file_path] # "file"
               THEN ReturnError("Not a file")
               ELSE IF ~read_ok
               THEN ReturnError("Cannot read file")
               ELSE /\ md_content' = TranslateNewlines(disk[file_path])
                    /\ errors' = 0
                    /\ warnings' = 0
                    /\ pc' = "trailing_whitespace"
                    /\ UNCHANGED <<log, ret, prev_level, md_line_num>>
    /\ UNCHANGED <<fsVars, findVars>>

\* Check 1: trailing whitespace.
CheckTrailingWhitespace ==
    /\ pc = "trailing_whitespace"
    /\ IF TrailingWhitespace(md_content)
       THEN Error("Trailing whitespace found", 0, <<>>)
       ELSE NoFinding
    /\ pc' = "blank_lines"
    /\ UNCHANGED <<md_content, prev_level, md_line_num, ret, fsVars, findVars>>

\* Check 2: multiple consecutive blank lines.
CheckBlankLines ==
    /\ pc = "blank_lines"
    /\ IF MultipleBlankLines(md_content)
       THEN Error("Multiple consecutive blank lines found", 0, <<>>)
       ELSE NoFinding
    /\ pc' = "headings"
    /\ UNCHANGED <<md_content, prev_level, md_line_num, ret, fsVars, findVars>>

\* Check 3: prev_level = 0 and the start of enumerate(content.split('\n'), 1).
HeadingsStart ==
    /\ pc = "headings"
    /\ prev_level' = 0
    /\ md_line_num' = 1
    /\ pc' = "heading_line"
    /\ UNCHANGED <<md_content, log, errors, warnings, ret, fsVars, findVars>>

\* Check 3: the body of the loop for the line md_line_num.
HeadingLine ==
    /\ pc = "heading_line"
    /\ md_line_num <= Len(split(md_content))
    /\ LET line == split(md_content)[md_line_num]
       IN  IF heading_match(line)
           THEN /\ IF current_level(line) > prev_level + 1
                   THEN Error("Heading level skipped", md_line_num, strip(line))
                   ELSE NoFinding
                /\ prev_level' = next_prev_level(prev_level, current_level(line))
           ELSE /\ NoFinding
                /\ UNCHANGED prev_level
    /\ md_line_num' = md_line_num + 1
    /\ UNCHANGED <<pc, md_content, ret, fsVars, findVars>>

\* Check 3: the loop ends after the last line.
HeadingsEnd ==
    /\ pc = "heading_line"
    /\ md_line_num > Len(split(md_content))
    /\ pc' = "code_blocks"
    /\ UNCHANGED <<md_content, log, errors, warnings, prev_level, md_line_num,
                   ret, fsVars, findVars>>

\* Check 4: unclosed code block.
CheckCodeBlocks ==
    /\ pc = "code_blocks"
    /\ IF code_blocks(md_content) > 0 /\ code_blocks(md_content) % 2 # 0
       THEN Error("Unclosed code block found", 0, <<>>)
       ELSE NoFinding
    /\ pc' = "final_newline"
    /\ UNCHANGED <<md_content, prev_level, md_line_num, ret, fsVars, findVars>>

\* Check 5: the file should end with a newline.
CheckFinalNewline ==
    /\ pc = "final_newline"
    /\ IF md_content # <<>> /\ ~endswith(md_content, <<LF>>)
       THEN Warning("File should end with newline")
       ELSE NoFinding
    /\ pc' = "empty"
    /\ UNCHANGED <<md_content, prev_level, md_line_num, ret, fsVars, findVars>>

\* Check 6: empty file.
CheckEmpty ==
    /\ pc = "empty"
    /\ IF strip(md_content) = <<>>
       THEN Error("File is empty", 0, <<>>)
       ELSE NoFinding
    /\ pc' = "header"
    /\ UNCHANGED <<md_content, prev_level, md_line_num, ret, fsVars, findVars>>

\* Check 7: the file should start with a header.
CheckHeader ==
    /\ pc = "header"
    /\ IF strip(md_content) # <<>> /\ ~startswith(strip(md_content), <<"#">>)
       THEN Warning("File should start with a header (# Title)")
       ELSE NoFinding
    /\ pc' = "report"
    /\ UNCHANGED <<md_content, prev_level, md_line_num, ret, fsVars, findVars>>

\* The report and return errors, warnings.
ValidateReturn ==
    /\ pc = "report"
    /\ ret' = <<errors, warnings>>
    /\ pc' = "returned"
    /\ UNCHANGED <<md_content, log, errors, warnings, prev_level, md_line_num,
                   fsVars, findVars>>

(***************************************************************************)
(* SpecValidate: validate_file on a path that is missing, a directory or a *)
(* file of up to MaxLines lines, the lines either all whitespace or those  *)
(* of a document with headings and code fences.                            *)
(***************************************************************************)

BlankLines == {<<>>, <<SP>>, <<TAB>>}

DocumentLines ==
    { <<>>,
      <<"#", SP, "a">>,
      <<"#", "#", SP, "a">>,
      <<"#", "#", "#", TAB, "a">>,
      <<"#", "a">>,
      <<BQ, BQ, BQ>> }

\* '\n'.join(lines)
RECURSIVE join_lines(_)
join_lines(lines) ==
    IF Len(lines) = 1 THEN lines[1]
    ELSE lines[1] \o <<LF>> \o join_lines(Tail(lines))

Documents(L) ==
    {join_lines(ls) : ls \in UNION {[1..n -> L] : n \in 1..MaxLines}}

Contents == Documents(BlankLines) \cup Documents(DocumentLines)

InitValidate ==
    /\ files = OneFile
    /\ \/ /\ kind = [p \in Range(OneFile) |-> "file"]
          /\ disk \in [Range(OneFile) -> Contents]
       \/ /\ kind \in [Range(OneFile) -> {"missing", "dir"}]
          /\ disk = [p \in Range(OneFile) |-> <<>>]
    /\ cwd_writable = TRUE
    /\ backup_dir_exists = FALSE
    /\ backups = EmptyMap
    /\ now = 0
    /\ create_backup = TRUE
    /\ dry_run = FALSE
    /\ auto_cleanup = FALSE
    /\ pc = "validate"
    /\ success_count = 0
    /\ calls = <<>>
    /\ ret = "none"
    /\ run = 0
    /\ md_content = <<>>
    /\ errors = 0
    /\ warnings = 0
    /\ prev_level = 0
    /\ md_line_num = 0
    /\ log = <<>>
    /\ tree = {}
    /\ finder = "markdown"
    /\ include_patterns = {}
    /\ include_temp = FALSE
    /\ todo = <<>>
    /\ visited = {}
    /\ found = <<>>

NextValidate ==
    \/ ValidateOpen
    \/ CheckTrailingWhitespace
    \/ CheckBlankLines
    \/ HeadingsStart
    \/ HeadingLine
    \/ HeadingsEnd
    \/ CheckCodeBlocks
    \/ CheckFinalNewline
    \/ CheckEmpty
    \/ CheckHeader
    \/ ValidateReturn

SpecValidate == InitValidate /\ [][NextValidate]_vars

(***************************************************************************)
(* The claims                                                              *)
(***************************************************************************)

\* The record of the clean_file call that returned last.
LastCall == calls[Len(calls)]

NoBlankBeforeTerminator(s) ==
    \A i \in 1..(Len(s) - 1) : s[i + 1] = LF => s[i] \notin {SP, TAB}

\* The lines that have other content than whitespace, each without its
\* trailing whitespace and terminator: leading whitespace and content.
ContentLines(text) ==
    LET ls == readlines(text)
    IN  SelectSeq([i \in 1..Len(ls) |-> rstrip(ls[i], Whitespace)],
                  LAMBDA l : l # <<>>)

NoTripleNewline(s) ==
    ~ \E i \in 1..(Len(s) - 2) : s[i] = LF /\ s[i + 1] = LF /\ s[i + 2] = LF

\* C1: cleanup is idempotent: the second clean_all run over a file finds the
\* content the first run left already clean, writes nothing and computes the
\* content it read.
C1_Idempotent ==
    (run = 2 /\ calls # <<>>) =>
        /\ ~LastCall.wrote
        /\ LastCall.content = LastCall.original_content

\* C2: in the content clean_file produces, no space or tab stands right
\* before a line terminator, and the lines that have content keep their
\* leading whitespace and their content.
C2_NoTrailingWhitespace ==
    (calls # <<>> /\ LastCall.computed) =>
        /\ NoBlankBeforeTerminator(LastCall.content)
        /\ ContentLines(LastCall.content) = ContentLines(LastCall.original_content)

\* C3: the content clean_file produces never holds three or more
\* consecutive newlines.
C3_NoTripleNewline ==
    (calls # <<>> /\ LastCall.computed) => NoTripleNewline(LastCall.content)

\* C4: after clean_file returned success outside dry-run mode, the file on
\* disk holds no "\r": every terminator is a single "\n".
C4_OnlyLF ==
    (calls # <<>> /\ ~dry_run /\ LastCall.ret = "True") =>
        CR \notin Range(disk[LastCall.file])

C6_BackupsDoNotCollide ==
    (pc = "done" /\ create_backup /\ ~dry_run /\ ~auto_cleanup) =>
        \A i \in 1..Len(calls) :
            (calls[i].wrote /\ calls[i].backup_path # None) =>
                /\ calls[i].backup_path \in DOMAIN backups
                /\ backups[calls[i].backup_path] = calls[i].before

\* C7: once clean_file has been called for a file, clean_all ends by
\* returning, with clean_file called for every file of the list, and it
\* returns success iff every call did.
C7_RunsToCompletion ==
    (calls # <<>> /\ pc \in {"done", "raised"}) =>
        /\ pc = "done"
        /\ Len(calls) = Len(files)
        /\ \A i \in 1..Len(calls) : calls[i].file = files[i]
        /\ ret = "True" <=> \A i \in 1..Len(calls) : calls[i].ret = "True"

\* C8: when the content clean_file computed is the content it read, the
\* call wrote nothing, the file is as before, the backup made for the call
\* is gone and the call returned success.
C8_NoOp ==
    (calls # <<>> /\ LastCall.computed
     /\ LastCall.content = LastCall.original_content) =>
        /\ ~LastCall.wrote
        /\ disk[LastCall.file] = LastCall.before
        /\ LastCall.backup_path # None => LastCall.backup_path \notin DOMAIN backups
        /\ LastCall.ret = "True"

\* C8's case: an unchanged file for which a backup had been made.
C8_Witness ==
    /\ calls # <<>>
    /\ LastCall.computed
    /\ LastCall.content = LastCall.original_content
    /\ LastCall.backup_path # None
    /\ backups # EmptyMap

\* C9: in dry-run mode no step of clean_all changes a file, the backup
\* directory or a backup.
C9_DryRunTouchesNothing ==
    [][dry_run => UNCHANGED <<kind, disk, backup_dir_exists, backups>>]_vars

\* C9's case: a finished dry run with backups and auto-cleanup asked for,
\* over a file that needs cleaning, with a backup of an earlier run present.
C9_Witness ==
    /\ dry_run /\ create_backup /\ auto_cleanup
    /\ pc = "done"
    /\ backups # EmptyMap
    /\ \E i \in 1..Len(calls) :
          /\ calls[i].ret = "True"
          /\ Transform(TranslateNewlines(disk[calls[i].file]))
                # TranslateNewlines(disk[calls[i].file])

\* Whether a directory is one the exclude patterns name: its path matches an
\* exclude pattern with the trailing "/*" stripped.
ExcludedDir(d) ==
    \E pattern \in exclude_patterns :
        LET stripped == Path(rstrip_slash_star(pattern))
        IN  stripped # <<>> /\ match(d, stripped)

\* C10: the walk yields no excluded directory, and no returned path matches
\* an exclude pattern or lies under an excluded directory.
C10_ExcludeWins ==
    /\ \A d \in visited : d # <<>> => ~ExcludedDir(d)
    /\ pc = "found" =>
          \A i \in 1..Len(files) :
              /\ ~Excluded(files[i])
              /\ \A k \in 1..(Len(files[i]) - 1) : ~ExcludedDir(SubSeq(files[i], 1, k))

\* The content is zero-length or made of spaces, tabs and newlines only.
WhitespaceOnly(s) == \A i \in 1..Len(s) : s[i] \in {SP, TAB, LF}

\* validate_file has returned for a path that is a file.
ValidatedFile == pc = "returned" /\ kind[files[1]] = "file"

\* C11: validate_file returns an error count of exactly 1 for every file
\* whose content is zero-length or only spaces, tabs and newlines.
C11_OneErrorWhenBlank ==
    (ValidatedFile /\ WhitespaceOnly(disk[files[1]])) => ret[1] = 1

\* The heading lines of a text, by their 1-based numbers.
HeadingLines(content) ==
    {i \in 1..Len(split(content)) : heading_match(split(content)[i])}

LevelAt(content, i) == current_level(split(content)[i])

\* The level of the nearest heading line above line i, 0 when there is none.
LevelBefore(content, i) ==
    LET above == {j \in HeadingLines(content) : j < i}
    IN  IF above = {} THEN 0 ELSE LevelAt(content, Max(above))

\* The heading lines whose level exceeds the previous level by more than 1.
SkippedHeadings(content) ==
    {i \in HeadingLines(content) : LevelAt(content, i) > LevelBefore(content, i) + 1}

\* The levels of the heading lines, in the order of the lines.
Levels(content) ==
    LET headings == SelectSeq(split(content), heading_match)
    IN  [k \in 1..Len(headings) |-> current_level(headings[k])]

SkipFindings == SelectSeq(log, LAMBDA f : f.message = "Heading level skipped")

ErrorsOfChecks1And2 ==
    (IF TrailingWhitespace(md_content) THEN 1 ELSE 0)
    + (IF MultipleBlankLines(md_content) THEN 1 ELSE 0)

\* C12: the heading loop keeps in prev_level the level of the nearest
\* heading line above the current line, 0 when there is none, and adds
\* exactly one error, reported with the line's 1-based number, for each
\* heading line whose level exceeds that level by more than 1 and none for
\* any other line; levels 1,2,3 add no error and levels 1,3 add exactly one.
C12_HeadingSkips ==
    /\ pc = "heading_line" =>
          /\ prev_level = LevelBefore(md_content, md_line_num)
          /\ {SkipFindings[k].line_num : k \in 1..Len(SkipFindings)}
                 = {i \in SkippedHeadings(md_content) : i < md_line_num}
    /\ pc \in {"code_blocks", "final_newline", "empty", "header", "report", "returned"} =>
          /\ {SkipFindings[k].line_num : k \in 1..Len(SkipFindings)}
                 = SkippedHeadings(md_content)
          /\ Levels(md_content) = <<1, 2, 3>> => SkipFindings = <<>>
          /\ Levels(md_content) = <<1, 3>> => Len(SkipFindings) = 1
    /\ pc \in {"heading_line", "code_blocks"} =>
          /\ Len(SkipFindings) = Cardinality({SkipFindings[k].line_num : k \in 1..Len(SkipFindings)})
          /\ \A k \in 1..Len(SkipFindings) : SkipFindings[k].level = "error"
          /\ errors = ErrorsOfChecks1And2 + Len(SkipFindings)

\* C12's case: a validated file with the heading levels 1, 3, 3, for which
\* the one error of the heading loop names the first line of level 3.
C12_Witness ==
    /\ pc = "returned"
    /\ Levels(md_content) = <<1, 3, 3>>
    /\ Len(SkipFindings) = 1
    /\ SkipFindings[1].line_num = Min({i \in HeadingLines(md_content) : LevelAt(md_content, i) = 3})
    /\ ret[1] >= 1
====
